---- MODULE Spec2Model ----
(***************************************************************************)
(* Model of scripts/generate-manifest.mjs: the manifest builder that scans *)
(* configured directories of HTML fragments and writes content/manifest.   *)
(*                                                                         *)
(* Strings of the program are sequences of characters, each character a    *)
(* one-character string ("U+0060", "U+0301" and "U+00E9" name the code     *)
(* points written by number).  JavaScript values that may be absent        *)
(* are records [t |-> "undefined" | "null" | "string" | "object", v |-> _].*)
(***************************************************************************)
EXTENDS Integers, Sequences, FiniteSets, TLC

VARIABLES
    \* A single call of one of the program's functions.
    arg,            \* the arguments of the call
    ret,            \* what the call returned
    called,         \* the function that was called, "none" before the call
    \* The environment of a run of the script.
    configFile,     \* content/manifest.config.json: [kind, value]
    disk,           \* directory path -> [kind, entries], the paths that exist
    writeFails,     \* whether fs.writeFile of the output path fails
    outFile,        \* content/manifest.json: [exists, payload]
    \* The run itself.
    pc,             \* where main() is
    config,         \* buildManifest: config
    manifest,       \* buildManifest: manifest
    nextCollection, \* buildManifest: nextCollection
    ci,             \* index of the collection the outer loop is at
    chi,            \* index of the child the inner loop is at
    orderedFiles,   \* buildManifest: orderedFiles
    files,          \* buildManifest: files
    fi,             \* index of the file the innermost loop is at
    exitCode,       \* process.exitCode (0 while unset)
    stderr,         \* what console.error wrote
    ioLog,          \* the file system operations performed, in order
    \* The runs before this one.
    runNo,          \* number of this run
    prevRun         \* [pc, outFile]: how the previous run ended ("none" for the
                    \* first), and the output file as this run found it

pureVars == <<arg, ret, called>>
envVars  == <<configFile, disk, writeFails>>
progVars == <<pc, config, manifest, nextCollection, ci, chi, orderedFiles, files,
              fi, exitCode, stderr, ioLog>>
runVars  == <<configFile, disk, writeFails, outFile, pc, config, manifest,
              nextCollection, ci, chi, orderedFiles, files, fi, exitCode, stderr,
              ioLog, runNo, prevRun>>
vars     == <<arg, ret, called, configFile, disk, writeFails, outFile, pc, config,
              manifest, nextCollection, ci, chi, orderedFiles, files, fi, exitCode,
              stderr, ioLog, runNo, prevRun>>

(***************************************************************************)
(* Sequence helpers.                                                       *)
(***************************************************************************)
Min(S) == CHOOSE x \in S : \A y \in S : x <= y

Range(s) == {s[i] : i \in 1..Len(s)}

RECURSIVE Flatten(_)
Flatten(ss) == IF ss = <<>> THEN <<>> ELSE Head(ss) \o Flatten(Tail(ss))

SeqsUpTo(S, n) == UNION {[1..k -> S] : k \in 0..n}

DropFirst(s, n) == SubSeq(s, n + 1, Len(s))

\* F of the value of x: x is computed once, as a statement of the program
\* computes its operand before the call that uses it.
Then(x, F(_)) == CHOOSE y \in {F(v) : v \in {x}} : TRUE

(***************************************************************************)
(* Characters.                                                             *)
(***************************************************************************)
\* JavaScript's \s and String.prototype.trim, on the characters modelled.
IsWhitespace(c) == c \in {" ", "\t", "\n"}

\* String.prototype.toLowerCase / the regular expression flag i, per character.
ToLowerChar(c) ==
    CASE c = "A" -> "a" [] c = "B" -> "b" [] c = "H" -> "h" [] c = "L" -> "l"
      [] c = "M" -> "m" [] c = "P" -> "p" [] c = "T" -> "t" [] OTHER -> c

toLowerCase(s) == [i \in 1..Len(s) |-> ToLowerChar(s[i])]

\* pat occurs in text at position i.
StartsWithAt(text, i, pat) ==
    /\ i >= 1
    /\ i + Len(pat) - 1 <= Len(text)
    /\ \A k \in 1..Len(pat) : text[i + k - 1] = pat[k]

\* pat occurs in text at position i, letter case ignored.
StartsWithAtCI(text, i, pat) ==
    /\ i >= 1
    /\ i + Len(pat) - 1 <= Len(text)
    /\ \A k \in 1..Len(pat) : ToLowerChar(text[i + k - 1]) = ToLowerChar(pat[k])

endsWith(s, suffix) == StartsWithAt(s, Len(s) - Len(suffix) + 1, suffix)

\* The first position >= from at which pat occurs, 0 when there is none.
IndexOfFrom(text, pat, from) ==
    LET hits == {j \in from..Len(text) : StartsWithAt(text, j, pat)}
    IN  IF hits = {} THEN 0 ELSE Min(hits)

IndexOfFromCI(text, pat, from) ==
    LET hits == {j \in from..Len(text) : StartsWithAtCI(text, j, pat)}
    IN  IF hits = {} THEN 0 ELSE Min(hits)

\* text.replace(/pat/g, rep) for a literal pattern: the matches are found left
\* to right in text, never in what a replacement produced.
RECURSIVE ReplaceAll(_, _, _)
ReplaceAll(text, pat, rep) ==
    Then(IndexOfFrom(text, pat, 1), LAMBDA j :
         IF j = 0 THEN text
         ELSE SubSeq(text, 1, j - 1) \o rep
                 \o Then(DropFirst(text, j + Len(pat) - 1),
                         LAMBDA rest : ReplaceAll(rest, pat, rep)))

(***************************************************************************)
(* decodeHtmlEntities: six replace calls, each over the result of the one  *)
(* before it.                                                              *)
(***************************************************************************)
EntAmp  == <<"&", "a", "m", "p", ";">>
EntLt   == <<"&", "l", "t", ";">>
EntGt   == <<"&", "g", "t", ";">>
EntQuot == <<"&", "q", "u", "o", "t", ";">>
Ent39   == <<"&", "#", "3", "9", ";">>
Ent96   == <<"&", "#", "9", "6", ";">>

decodeHtmlEntities(text) ==
    Then(ReplaceAll(text, EntAmp, <<"&">>),  LAMBDA t1 :
    Then(ReplaceAll(t1, EntLt, <<"<">>),     LAMBDA t2 :
    Then(ReplaceAll(t2, EntGt, <<">">>),     LAMBDA t3 :
    Then(ReplaceAll(t3, EntQuot, <<"\"">>),  LAMBDA t4 :
    Then(ReplaceAll(t4, Ent39, <<"'">>),     LAMBDA t5 :
         ReplaceAll(t5, Ent96, <<"U+0060">>))))))

(***************************************************************************)
(* extractTextFromHtml.                                                    *)
(***************************************************************************)
\* The first ">" at or after position from, 0 when there is none.
FirstGt(text, from) == IndexOfFrom(text, <<">">>, from)

\* raw.replace(/<[^>]+>/g, ' '): the leftmost "<" that is followed by at least one
\* character other than ">" and then a ">" starts a match, which ends at that
\* first ">"; the match becomes one space and the scan goes on after it.
RECURSIVE ReplaceTags(_)
ReplaceTags(text) ==
    LET starts == {i \in 1..Len(text) :
                      text[i] = "<" /\ FirstGt(text, i + 1) >= i + 2}
    IN  IF starts = {} THEN text
        ELSE Then(FirstGt(text, Min(starts) + 1), LAMBDA j :
                  SubSeq(text, 1, Min(starts) - 1) \o <<" ">>
                     \o Then(DropFirst(text, j), LAMBDA rest : ReplaceTags(rest)))

\* The text without its leading whitespace.
RECURSIVE TrimStart(_)
TrimStart(text) ==
    IF text # <<>> /\ IsWhitespace(Head(text))
    THEN Then(Tail(text), LAMBDA rest : TrimStart(rest)) ELSE text

\* text.replace(/\s+/g, ' ')
RECURSIVE CollapseWhitespace(_)
CollapseWhitespace(text) ==
    IF text = <<>> THEN <<>>
    ELSE IF IsWhitespace(Head(text))
         THEN <<" ">> \o Then(TrimStart(text), LAMBDA rest : CollapseWhitespace(rest))
         ELSE <<Head(text)>> \o Then(Tail(text), LAMBDA rest : CollapseWhitespace(rest))

RECURSIVE TrimEnd(_)
TrimEnd(text) ==
    IF text # <<>> /\ IsWhitespace(text[Len(text)])
    THEN Then(SubSeq(text, 1, Len(text) - 1), LAMBDA rest : TrimEnd(rest)) ELSE text

\* String.prototype.trim
trim(text) == Then(TrimStart(text), LAMBDA rest : TrimEnd(rest))

\* PostProcess without the final trim() (a variant the properties tell apart).
PostProcess_NoTrim(raw) ==
    Then(ReplaceTags(raw), LAMBDA t1 : CollapseWhitespace(t1))

\* The argument of decodeHtmlEntities in extractTextFromHtml: the three chained
\* calls on raw.
PostProcess(raw) ==
    Then(ReplaceTags(raw),        LAMBDA t1 :
    Then(CollapseWhitespace(t1),  LAMBDA t2 :
         trim(t2)))

\* html.match(new RegExp(`<${tagName}[^>]*>([\s\S]*?)<\/${tagName}>`, 'i')) tried
\* at position i: the opening tag runs to the first ">", the group to the first
\* closing tag after it.  gt and cl are 0 when that part does not match.
OpenEnd(html, tagName, i) ==
    IF StartsWithAtCI(html, i, <<"<">> \o tagName)
    THEN FirstGt(html, i + 1 + Len(tagName)) ELSE 0

CloseStart(html, tagName, i) ==
    LET gt == OpenEnd(html, tagName, i)
    IN  IF gt = 0 THEN 0
        ELSE IndexOfFromCI(html, <<"<", "/">> \o tagName \o <<">">>, gt + 1)

\* The match: [found, raw], raw being the capture group match[1].
MatchElement(html, tagName) ==
    Then({i \in 1..Len(html) : CloseStart(html, tagName, i) # 0}, LAMBDA starts :
         IF starts = {} THEN [found |-> FALSE, raw |-> <<>>]
         ELSE LET i == Min(starts)
              IN  [found |-> TRUE,
                   raw |-> SubSeq(html, OpenEnd(html, tagName, i) + 1,
                                  CloseStart(html, tagName, i) - 1)])

extractTextFromHtml(html, tagName) ==
    Then(MatchElement(html, tagName), LAMBDA match :
         IF ~match.found THEN <<>>
         ELSE Then(PostProcess(match.raw), LAMBDA text : decodeHtmlEntities(text)))

(***************************************************************************)
(* JavaScript values and operators.                                        *)
(***************************************************************************)
Undefined == [t |-> "undefined", v |-> <<>>]
Null      == [t |-> "null", v |-> <<>>]
Str(s)    == [t |-> "string", v |-> s]
\* An object: v maps its own property names to values.
Obj(f)    == [t |-> "object", v |-> f]
EmptyObj  == Obj(<<>>)

\* a ?? b
Coalesce(a, b) == IF a.t \in {"undefined", "null"} THEN b ELSE a

\* a || b on two strings: the empty string is falsy.
OrElse(a, b) == IF a = <<>> THEN b ELSE a

\* obj[key] on an object read from JSON (the properties inherited from
\* Object.prototype, none of which has a label or a description, read as
\* undefined here).
GetProp(obj, key) ==
    IF obj.t = "object" /\ key \in DOMAIN obj.v THEN obj.v[key] ELSE Undefined

(***************************************************************************)
(* path.extname, path.basename, path.join on the names of directory        *)
(* entries (no separator in them).                                         *)
(***************************************************************************)
LastDot(name) ==
    LET dots == {i \in 1..Len(name) : name[i] = "."}
    IN  IF dots = {} THEN 0 ELSE CHOOSE i \in dots : \A j \in dots : j <= i

\* path.extname: from the last "." to the end; empty when there is no ".", when
\* the last "." is the first character, and for "..".
extname(name) ==
    LET d == LastDot(name)
    IN  IF d <= 1 \/ name = <<".", ".">> THEN <<>> ELSE DropFirst(name, d - 1)

\* path.basename(name, ext): name without the suffix ext when ext is a non-empty
\* suffix of name (the empty string when ext is the whole name), else name.
basename(name, ext) ==
    IF ext # <<>> /\ endsWith(name, ext)
    THEN SubSeq(name, 1, Len(name) - Len(ext)) ELSE name

\* path.join(a, b) of a relative directory and a name.
join(a, b) == IF a = <<>> THEN b ELSE a \o <<"/">> \o b

(***************************************************************************)
(* buildFileEntry, given the content readFile returned.                    *)
(***************************************************************************)
\* headingOf with the two tags exchanged: the h1 preferred (a variant the
\* properties tell apart).
headingOf_H1First(raw) == OrElse(extractTextFromHtml(raw, <<"h", "1">>),
                                 extractTextFromHtml(raw, <<"h", "2">>))

headingOf(raw) == OrElse(extractTextFromHtml(raw, <<"h", "2">>),
                         extractTextFromHtml(raw, <<"h", "1">>))

\* buildFileEntry reading overrides[fileName] in place of overrides[slug] (a
\* variant the properties tell apart).
buildFileEntry_KeyByFileName(dir, fileName, overrides, raw) ==
    Then(basename(fileName, extname(fileName)), LAMBDA slug :
    LET headingText     == OrElse(extractTextFromHtml(raw, <<"h", "2">>),
                                  extractTextFromHtml(raw, <<"h", "1">>))
        descriptionText == extractTextFromHtml(raw, <<"p">>)
        override        == Coalesce(GetProp(overrides, fileName), EmptyObj)
    IN  [id          |-> slug,
         label       |-> Coalesce(Coalesce(GetProp(override, "label"),
                                           Str(headingText)), Str(slug)),
         description |-> Coalesce(GetProp(override, "description"),
                                  Str(descriptionText)),
         path        |-> ReplaceAll(join(dir, fileName), <<"\\">>, <<"/">>)])

buildFileEntry(dir, fileName, overrides, raw) ==
    Then(basename(fileName, extname(fileName)), LAMBDA slug :
    LET headingText     == headingOf(raw)
        descriptionText == extractTextFromHtml(raw, <<"p">>)
        override        == Coalesce(GetProp(overrides, slug), EmptyObj)
    IN  [id          |-> slug,
         label       |-> Coalesce(Coalesce(GetProp(override, "label"),
                                           Str(headingText)), Str(slug)),
         description |-> Coalesce(GetProp(override, "description"),
                                  Str(descriptionText)),
         path        |-> ReplaceAll(join(dir, fileName), <<"\\">>, <<"/">>)])

(***************************************************************************)
(* String.prototype.localeCompare under the root collation (the ordering   *)
(* of the default locale for the characters modelled): each character maps *)
(* to collation elements [p, s, t]; the primary weights of the two strings *)
(* are compared first, then the secondary (accents), then the tertiary     *)
(* (lower case before upper case).  Canonically equivalent strings have    *)
(* the same elements and compare as 0.                                     *)
(***************************************************************************)
PrimaryWeight(c) ==
    CASE c = "." -> 1
      [] c \in {"a", "A"} -> 10 [] c \in {"b", "B"} -> 11 [] c = "c" -> 12
      [] c \in {"e", "U+00E9"} -> 14 [] c \in {"h", "H"} -> 17
      [] c \in {"l", "L"} -> 21 [] c \in {"m", "M"} -> 22
      [] c \in {"t", "T"} -> 29 [] c = "x" -> 33 [] c = "z" -> 35
      [] OTHER -> 0

IsUpper(c) == ToLowerChar(c) # c

CollationElements(c) ==
    CASE c = "U+00E9" -> <<[p |-> 14, s |-> 1, t |-> 1], [p |-> 0, s |-> 2, t |-> 1]>>
      [] c = "U+0301" -> <<[p |-> 0, s |-> 2, t |-> 1]>>
      [] OTHER -> <<[p |-> PrimaryWeight(c), s |-> 1,
                     t |-> IF IsUpper(c) THEN 2 ELSE 1]>>

ElementsOf(str) == Flatten([i \in 1..Len(str) |-> CollationElements(str[i])])

\* The sort key of a string at one level: the weights of that level.
PrimaryKey(str) ==
    Then(ElementsOf(str), LAMBDA e :
         SelectSeq([i \in 1..Len(e) |-> e[i].p], LAMBDA w : w # 0))
SecondaryKey(str) == Then(ElementsOf(str), LAMBDA e : [i \in 1..Len(e) |-> e[i].s])
TertiaryKey(str)  == Then(ElementsOf(str), LAMBDA e : [i \in 1..Len(e) |-> e[i].t])

\* -1, 0 or 1: the order of two weight sequences, a proper prefix first.
CompareKeys(k1, k2) ==
    LET diff == {i \in 1..Len(k1) : i > Len(k2) \/ k1[i] # k2[i]}
    IN  IF diff = {}
        THEN (IF Len(k1) = Len(k2) THEN 0 ELSE -1)
        ELSE LET i == Min(diff)
             IN  IF i > Len(k2) THEN 1 ELSE IF k1[i] < k2[i] THEN -1 ELSE 1

\* The order of two strings at one level of the collation.
CompareAt(Key(_), a, b) ==
    Then(<<Key(a), Key(b)>>, LAMBDA keys : CompareKeys(keys[1], keys[2]))

localeCompare(a, b) ==
    Then(CompareAt(PrimaryKey, a, b), LAMBDA c1 :
         IF c1 # 0 THEN c1
         ELSE Then(CompareAt(SecondaryKey, a, b), LAMBDA c2 :
                   IF c2 # 0 THEN c2 ELSE CompareAt(TertiaryKey, a, b)))

\* Array.prototype.sort((a, b) => a.localeCompare(b)): a stable sort, elements
\* that compare as 0 keep their order.
RECURSIVE SortByLocale(_)
SortByLocale(names) ==
    IF names = <<>> THEN <<>>
    ELSE Then(names[Len(names)],                            LAMBDA x :
         Then(SortByLocale(SubSeq(names, 1, Len(names) - 1)), LAMBDA sorted :
           LET k == Cardinality({i \in 1..Len(sorted) : localeCompare(sorted[i], x) <= 0})
           IN  SubSeq(sorted, 1, k) \o <<x>> \o DropFirst(sorted, k)))

(***************************************************************************)
(* orderFiles.                                                             *)
(***************************************************************************)
\* new Set(files) / [...existing]: the distinct elements in insertion order.
RECURSIVE Distinct(_)
Distinct(names) ==
    IF names = <<>> THEN <<>>
    ELSE Then(Distinct(SubSeq(names, 1, Len(names) - 1)), LAMBDA front :
           LET x == names[Len(names)]
           IN  IF x \in Range(front) THEN front ELSE Append(front, x))

\* existing.delete(name)
Without(names, name) == SelectSeq(names, LAMBDA x : x # name)

\* The for loop over fileOrder: [existing, ordered] after it.
RECURSIVE OrderLoop(_, _, _)
OrderLoop(fileOrder, existing, ordered) ==
    IF fileOrder = <<>> THEN [existing |-> existing, ordered |-> ordered]
    ELSE LET name == Head(fileOrder)
         IN  IF name \in Range(existing)
             THEN Then(<<Tail(fileOrder), Without(existing, name), Append(ordered, name)>>,
                       LAMBDA next : OrderLoop(next[1], next[2], next[3]))
             ELSE OrderLoop(Tail(fileOrder), existing, ordered)

\* orderFiles without the sort of the remaining names (a variant the properties
\* tell apart).
orderFiles_Unsorted(htmlFiles, fileOrder) ==
    LET order == IF fileOrder.t = "undefined" THEN <<>> ELSE fileOrder.v
    IN  Then(Distinct(htmlFiles),               LAMBDA existing :
        Then(OrderLoop(order, existing, <<>>),  LAMBDA loop :
             loop.ordered \o loop.existing))

\* fileOrder is a JavaScript value: undefined takes the default [].
orderFiles(htmlFiles, fileOrder) ==
    LET order == IF fileOrder.t = "undefined" THEN <<>> ELSE fileOrder.v
    IN  Then(Distinct(htmlFiles),               LAMBDA existing :
        Then(OrderLoop(order, existing, <<>>),  LAMBDA loop :
             loop.ordered \o SortByLocale(loop.existing)))

(***************************************************************************)
(* listHtmlFiles, given the entries readdir returned (each [name, isFile]).*)
(***************************************************************************)
DotHtml == <<".", "h", "t", "m", "l">>

IsHtmlFile(entry) == entry.isFile /\ endsWith(toLowerCase(entry.name), DotHtml)

listHtmlFiles(entries) ==
    LET kept == SelectSeq(entries, IsHtmlFile)
    IN  [i \in 1..Len(kept) |-> kept[i].name]

(***************************************************************************)
(* The environment of a run: the configuration file, the directories the   *)
(* configuration names, the output file.                                   *)
(***************************************************************************)
MaxRuns == 2

NameA    == <<"a", ".", "h", "t", "m", "l">>
NameAUp  == <<"a", ".", "H", "T", "M", "L">>
NameB    == <<"B", ".", "h", "t", "m", "l">>
NameC    == <<"c", ".", "h", "t", "m", "l">>
NameENfc == <<"U+00E9", ".", "h", "t", "m", "l">>
NameENfd == <<"e", "U+0301", ".", "h", "t", "m", "l">>
NameTxt  == <<"a", ".", "t", "x", "t">>
NameSub  == <<"x", ".", "h", "t", "m", "l">>
NameZ    == <<"z", ".", "h", "t", "m", "l">>

HtmlFull == <<"<", "h", "2", ">", "T", "<", "/", "h", "2", ">",
              "<", "p", ">", "x", "<", "/", "p", ">">>
HtmlH1   == <<"<", "h", "1", ">", "A", "<", "/", "h", "1", ">">>
HtmlBare == <<"x">>

File(name, content)  == [name |-> name, isFile |-> TRUE, readable |-> TRUE,
                         content |-> content]
Unreadable(name)     == [name |-> name, isFile |-> TRUE, readable |-> FALSE,
                         content |-> <<>>]
Subdirectory(name)   == [name |-> name, isFile |-> FALSE, readable |-> FALSE,
                         content |-> <<>>]

\* What a configured path can be: nothing, a file, a directory that cannot be
\* listed, a directory with entries.
Directory(entries) == [kind |-> "dir", listable |-> TRUE, entries |-> entries]
Missing            == [kind |-> "missing", listable |-> FALSE, entries |-> {}]
NotADirectory      == [kind |-> "file", listable |-> FALSE, entries |-> {}]
Unlistable         == [kind |-> "dir", listable |-> FALSE, entries |-> {}]

DirStates ==
    { Missing, NotADirectory, Unlistable,
      Directory({}),
      Directory({File(NameA, HtmlFull), File(NameB, HtmlH1), File(NameTxt, HtmlBare),
                 Subdirectory(NameSub)}),
      Directory({File(NameA, HtmlFull), Unreadable(NameB)}),
      Directory({File(NameA, HtmlFull), File(NameAUp, HtmlH1)}),
      Directory({File(NameENfc, HtmlBare), File(NameENfd, HtmlH1)}) }

DocsDir == <<"d", "o", "c", "s">>
BlogDir == <<"b", "l", "o", "g">>
Dirs    == {DocsDir, BlogDir}

\* An array read from JSON.
Arr(seq) == [t |-> "array", v |-> seq]

ChildDocs ==
    [id |-> Str(<<"c", "1">>), label |-> Str(<<"D">>), description |-> Str(<<>>),
     directory |-> DocsDir, fileOrder |-> Undefined, overrides |-> Undefined]
ChildBlog ==
    [id |-> Str(<<"c", "2">>), label |-> Str(<<"B">>), description |-> Str(<<"x">>),
     directory |-> BlogDir, fileOrder |-> Arr(<<NameB, NameZ, NameB>>),
     overrides |-> Obj(<<"a">> :> Obj("label" :> Str(<<"L">>)))]

Collection(children) == [label |-> Str(<<"C">>), children |-> children]

ConfigOf(collections) ==
    [previewTitle |-> Str(<<"P">>), previewDescription |-> Str(<<>>),
     collections |-> collections]

Configs ==
    { ConfigOf(<<>>),
      ConfigOf(<<Collection(<<>>)>>),
      ConfigOf(<<Collection(<<ChildDocs>>)>>),
      ConfigOf(<<Collection(<<ChildDocs, ChildBlog>>)>>),
      ConfigOf(<<Collection(<<ChildBlog>>), Collection(<<>>), Collection(<<ChildDocs>>)>>) }

\* The configuration file: absent, not JSON, or the JSON text of a configuration.
ConfigFiles ==
    {[kind |-> "missing", value |-> ConfigOf(<<>>)],
     [kind |-> "invalid", value |-> ConfigOf(<<>>)]}
    \cup {[kind |-> "ok", value |-> c] : c \in Configs}

NoFile      == [exists |-> FALSE, payload |-> <<>>]
StaleFile   == [exists |-> TRUE, payload |-> <<"stale">>]

\* The orders in which readdir can return the entries of a directory.
Orderings(S) == {s \in [1..Cardinality(S) -> S] : Range(s) = S}

IoOp(op, dir, name) == [op |-> op, dir |-> dir, name |-> name]

(***************************************************************************)
(* A run of the script: main() -> buildManifest() -> writeManifest().      *)
(***************************************************************************)
PureIdle == arg = <<>> /\ ret = <<>> /\ called = "none"

ProgStart ==
    /\ pc = "Start"
    /\ config = Undefined
    /\ manifest = Undefined
    /\ nextCollection = Undefined
    /\ ci = 0
    /\ chi = 0
    /\ orderedFiles = <<>>
    /\ files = <<>>
    /\ fi = 0
    /\ exitCode = 0
    /\ stderr = "none"
    /\ ioLog = <<>>

Init ==
    /\ PureIdle
    /\ configFile \in ConfigFiles
    /\ disk \in [Dirs -> DirStates]
    /\ writeFails \in BOOLEAN
    /\ outFile \in {NoFile, StaleFile}
    /\ ProgStart
    /\ runNo = 1
    /\ prevRun = [pc |-> "none", outFile |-> outFile]

CurrentChild == config.collections[ci].children[chi]

\* The directory entry of a name.
EntryOf(dir, name) == CHOOSE e \in disk[dir].entries : e.name = name

\* The catch handler without process.exitCode = 1 (a variant the properties tell
\* apart).
Fail_ExitCodeUnset(error) ==
    /\ pc' = "Failed"
    /\ stderr' = error
    /\ UNCHANGED exitCode

\* A rejected promise reaches main().catch: console.error(error) and
\* process.exitCode = 1; nothing else of main() runs.
Fail(error) ==
    /\ pc' = "Failed"
    /\ exitCode' = 1
    /\ stderr' = error

\* readConfig and the construction of manifest.
ReadConfig ==
    /\ pc = "Start"
    /\ ioLog' = Append(ioLog, IoOp("readConfig", <<>>, <<>>))
    /\ IF configFile.kind = "ok"
       THEN /\ config' = configFile.value
            /\ manifest' = [previewTitle |-> configFile.value.previewTitle,
                            previewDescription |-> configFile.value.previewDescription,
                            collections |-> <<>>]
            /\ ci' = 1
            /\ pc' = "Collections"
            /\ UNCHANGED <<exitCode, stderr>>
       ELSE /\ Fail(IF configFile.kind = "missing" THEN "ENOENT" ELSE "SyntaxError")
            /\ UNCHANGED <<config, manifest, ci>>
    /\ UNCHANGED <<nextCollection, chi, orderedFiles, files, fi>>
    /\ UNCHANGED <<envVars, outFile, runNo, prevRun, pureVars>>

\* for (const collection of config.collections): the next collection.
BeginCollection ==
    /\ pc = "Collections"
    /\ ci <= Len(config.collections)
    /\ nextCollection' = [label |-> config.collections[ci].label, children |-> <<>>]
    /\ chi' = 1
    /\ pc' = "Children"
    /\ UNCHANGED <<config, manifest, ci, orderedFiles, files, fi, exitCode, stderr, ioLog>>
    /\ UNCHANGED <<envVars, outFile, runNo, prevRun, pureVars>>

\* ensureDirectoryExists(directory) for the next child.
EnsureDirectoryExists ==
    /\ pc = "Children"
    /\ chi <= Len(config.collections[ci].children)
    /\ LET dir == CurrentChild.directory
       IN  /\ ioLog' = Append(ioLog, IoOp("stat", dir, <<>>))
           /\ IF disk[dir].kind = "dir"
              THEN pc' = "List" /\ UNCHANGED <<exitCode, stderr>>
              ELSE Fail(IF disk[dir].kind = "missing"
                        THEN "Directory not found" ELSE "is not a directory")
    /\ UNCHANGED <<config, manifest, nextCollection, ci, chi, orderedFiles, files, fi>>
    /\ UNCHANGED <<envVars, outFile, runNo, prevRun, pureVars>>

\* listHtmlFiles(directory), readdir returning the entries in any order, and
\* orderFiles(htmlFiles, child.fileOrder).
ListHtmlFiles ==
    /\ pc = "List"
    /\ LET dir == CurrentChild.directory
       IN  /\ ioLog' = Append(ioLog, IoOp("readdir", dir, <<>>))
           /\ IF disk[dir].listable
              THEN /\ \E entries \in Orderings(disk[dir].entries) :
                         orderedFiles' = orderFiles(listHtmlFiles(entries),
                                                    CurrentChild.fileOrder)
                   /\ files' = <<>>
                   /\ fi' = 1
                   /\ pc' = "Files"
                   /\ UNCHANGED <<exitCode, stderr>>
              ELSE /\ Fail("EACCES")
                   /\ UNCHANGED <<orderedFiles, files, fi>>
    /\ UNCHANGED <<config, manifest, nextCollection, ci, chi>>
    /\ UNCHANGED <<envVars, outFile, runNo, prevRun, pureVars>>

\* The loop over orderedFiles with a file that cannot be read skipped instead of
\* failing the run (a variant the properties tell apart).
BuildFileEntry_SkipUnreadable ==
    /\ pc = "Files"
    /\ fi <= Len(orderedFiles)
    /\ LET dir      == CurrentChild.directory
           fileName == orderedFiles[fi]
           entry    == EntryOf(dir, fileName)
       IN  /\ ioLog' = Append(ioLog, IoOp("readFile", dir, fileName))
           /\ files' = IF entry.readable
                       THEN Append(files,
                              buildFileEntry(dir, fileName,
                                             Coalesce(CurrentChild.overrides, EmptyObj),
                                             entry.content))
                       ELSE files
           /\ fi' = fi + 1
    /\ UNCHANGED <<pc, exitCode, stderr>>
    /\ UNCHANGED <<config, manifest, nextCollection, ci, chi, orderedFiles>>
    /\ UNCHANGED <<envVars, outFile, runNo, prevRun, pureVars>>

\* files.push(await buildFileEntry(directory, fileName, overrides)) for the next
\* file of orderedFiles.
BuildFileEntry ==
    /\ pc = "Files"
    /\ fi <= Len(orderedFiles)
    /\ LET dir      == CurrentChild.directory
           fileName == orderedFiles[fi]
           entry    == EntryOf(dir, fileName)
       IN  /\ ioLog' = Append(ioLog, IoOp("readFile", dir, fileName))
           /\ IF entry.readable
              THEN /\ files' = Append(files,
                          buildFileEntry(dir, fileName,
                                         Coalesce(CurrentChild.overrides, EmptyObj),
                                         entry.content))
                   /\ fi' = fi + 1
                   /\ UNCHANGED <<pc, exitCode, stderr>>
              ELSE /\ Fail("EACCES")
                   /\ UNCHANGED <<files, fi>>
    /\ UNCHANGED <<config, manifest, nextCollection, ci, chi, orderedFiles>>
    /\ UNCHANGED <<envVars, outFile, runNo, prevRun, pureVars>>

\* nextCollection.children.push({id, label, description, files}) after the last
\* file of the child.
EndChild ==
    /\ pc = "Files"
    /\ fi > Len(orderedFiles)
    /\ nextCollection' =
          [nextCollection EXCEPT !.children =
              Append(@, [id |-> CurrentChild.id, label |-> CurrentChild.label,
                         description |-> CurrentChild.description,
                         files |-> files])]
    /\ chi' = chi + 1
    /\ pc' = "Children"
    /\ UNCHANGED <<config, manifest, ci, orderedFiles, files, fi, exitCode, stderr, ioLog>>
    /\ UNCHANGED <<envVars, outFile, runNo, prevRun, pureVars>>

\* manifest.collections.push(nextCollection) after the last child.
EndCollection ==
    /\ pc = "Children"
    /\ chi > Len(config.collections[ci].children)
    /\ manifest' = [manifest EXCEPT !.collections = Append(@, nextCollection)]
    /\ ci' = ci + 1
    /\ pc' = "Collections"
    /\ UNCHANGED <<config, nextCollection, chi, orderedFiles, files, fi, exitCode,
                   stderr, ioLog>>
    /\ UNCHANGED <<envVars, outFile, runNo, prevRun, pureVars>>

\* JSON.stringify(manifest, null, 2) followed by a newline.  Every property of
\* the manifests built here is defined, so the text determines the manifest
\* and is kept as the value it prints.
Payload(m) == <<"json", m, "\n">>

\* buildManifest returned: writeManifest(manifest), then console.log and the
\* end of main().  A failed write may leave the file as it was or cut short.
WriteManifest ==
    /\ pc = "Collections"
    /\ ci > Len(config.collections)
    /\ ioLog' = Append(ioLog, IoOp("writeFile", <<>>, <<>>))
    /\ IF writeFails
       THEN /\ Fail("EIO")
            /\ outFile' \in {outFile, [exists |-> TRUE, payload |-> <<"partial">>]}
       ELSE /\ outFile' = [exists |-> TRUE, payload |-> Payload(manifest)]
            /\ pc' = "Done"
            /\ UNCHANGED <<exitCode, stderr>>
    /\ UNCHANGED <<config, manifest, nextCollection, ci, chi, orderedFiles, files, fi>>
    /\ UNCHANGED <<envVars, runNo, prevRun, pureVars>>

\* The script is started again on the same configuration and directories.
Restart ==
    /\ pc \in {"Done", "Failed"}
    /\ runNo < MaxRuns
    /\ runNo' = runNo + 1
    /\ prevRun' = [pc |-> pc, outFile |-> outFile]
    /\ pc' = "Start"
    /\ config' = Undefined
    /\ manifest' = Undefined
    /\ nextCollection' = Undefined
    /\ ci' = 0
    /\ chi' = 0
    /\ orderedFiles' = <<>>
    /\ files' = <<>>
    /\ fi' = 0
    /\ exitCode' = 0
    /\ stderr' = "none"
    /\ ioLog' = <<>>
    /\ UNCHANGED <<envVars, outFile, pureVars>>

Next ==
    \/ ReadConfig
    \/ BeginCollection
    \/ EnsureDirectoryExists
    \/ ListHtmlFiles
    \/ BuildFileEntry
    \/ EndChild
    \/ EndCollection
    \/ WriteManifest
    \/ Restart

Spec == Init /\ [][Next]_vars

\* Every operation is awaited and the event loop runs each continuation: a run
\* that can take a step takes it.
FairSpec == Init /\ [][Next]_vars /\ WF_vars(Next)

(***************************************************************************)
(* Single calls of the pure functions, on arguments drawn from bounded     *)
(* sets.  No run of the script is in progress in these specifications.     *)
(***************************************************************************)
NoRun ==
    /\ configFile = [kind |-> "missing", value |-> ConfigOf(<<>>)]
    /\ disk = [d \in Dirs |-> Missing]
    /\ writeFails = FALSE
    /\ outFile = NoFile
    /\ ProgStart
    /\ runNo = 1
    /\ prevRun = [pc |-> "none", outFile |-> NoFile]

\* ---- decodeHtmlEntities ----
MaxDecodePieces == 3

EntNbsp == <<"&", "n", "b", "s", "p", ";">>

DecodePieces ==
    { EntAmp, EntLt, EntGt, EntQuot, Ent39, Ent96, EntNbsp,
      <<"a", "m", "p", ";">>, <<"l", "t", ";">>, <<"g", "t", ";">>,
      <<"#", "3", "9", ";">>, <<"&">>, <<"x">> }

InitDecode ==
    /\ arg \in {Flatten(ps) : ps \in SeqsUpTo(DecodePieces, MaxDecodePieces)}
    /\ ret = <<>>
    /\ called = "none"
    /\ NoRun

DecodeCall ==
    /\ called = "none"
    /\ called' = "decodeHtmlEntities"
    /\ ret' = decodeHtmlEntities(arg)
    /\ UNCHANGED <<arg, runVars>>

SpecDecode == InitDecode /\ [][DecodeCall]_vars

\* ---- extractTextFromHtml ----
MaxRawPieces == 4

RawPieces ==
    { <<"<", "b", ">">>, <<"<", "/", "b", ">">>, <<" ">>, <<"\n">>, <<"a">>,
      <<"<">>, <<">">> }

TagNames == {<<"h", "2">>, <<"p">>}

Element(tagName, body) ==
    <<"<">> \o tagName \o <<">">> \o body \o <<"<", "/">> \o tagName \o <<">">>

InitExtract ==
    /\ \E tagName \in TagNames, ps \in SeqsUpTo(RawPieces, MaxRawPieces) :
          arg = [html |-> Element(tagName, Flatten(ps)), tagName |-> tagName,
                 body |-> Flatten(ps)]
    /\ ret = <<>>
    /\ called = "none"
    /\ NoRun

\* The call, with the capture group and the argument of decodeHtmlEntities kept
\* beside the result.
ExtractCall ==
    /\ called = "none"
    /\ called' = "extractTextFromHtml"
    /\ ret' = [raw       |-> MatchElement(arg.html, arg.tagName).raw,
               processed |-> PostProcess(MatchElement(arg.html, arg.tagName).raw),
               text      |-> extractTextFromHtml(arg.html, arg.tagName)]
    /\ UNCHANGED <<arg, runVars>>

SpecExtract == InitExtract /\ [][ExtractCall]_vars

\* ---- buildFileEntry ----
MaxBlocks == 3

H2 == <<"h", "2">>
H1 == <<"h", "1">>

HtmlBlocks ==
    { Element(H2, <<"T">>),
      Element(H2, <<" ", "<", "b", ">", "<", "/", "b", ">">>),
      <<"<", "H", "2", " ", "x", ">", "U", "<", "/", "h", "2", ">">>,
      Element(H1, <<"A">>),
      Element(<<"p">>, <<"x">>),
      <<"<", "h", "2", ">">> }

NameAB == <<"a", ".", "b", ".", "h", "t", "m", "l">>

EntryOverrides ==
    { Undefined, EmptyObj,
      Obj(<<"a">> :> Obj("label" :> Str(<<"L">>))),
      Obj(<<"a">> :> Obj("description" :> Str(<<>>))),
      Obj(<<"a">> :> Obj("label" :> Str(<<>>) @@ "description" :> Str(<<"D">>))),
      Obj(<<"a", ".", "h", "t", "m", "l">> :> Obj("label" :> Str(<<"L">>))) }

InitEntry ==
    /\ \E fileName \in {NameA, NameAB}, overrides \in EntryOverrides,
          blocks \in SeqsUpTo(HtmlBlocks, MaxBlocks) :
          arg = [fileName |-> fileName, overrides |-> overrides,
                 html |-> Flatten(blocks)]
    /\ ret = <<>>
    /\ called = "none"
    /\ NoRun

BuildEntryCall ==
    /\ called = "none"
    /\ called' = "buildFileEntry"
    /\ ret' = buildFileEntry(DocsDir, arg.fileName, arg.overrides, arg.html)
    /\ UNCHANGED <<arg, runVars>>

\* The heading buildFileEntry computes before it builds the entry.
HeadingCall ==
    /\ called = "none"
    /\ called' = "headingText"
    /\ ret' = headingOf(arg.html)
    /\ UNCHANGED <<arg, runVars>>

NextEntry == BuildEntryCall \/ HeadingCall

SpecEntry == InitEntry /\ [][NextEntry]_vars

\* ---- orderFiles ----
MaxOrderLen == 2

DiskNames  == {NameA, NameB, NameC, NameENfc, NameENfd}
OrderNames == {NameB, NameC, NameENfd, NameZ}

\* What readdir can return: any names of DiskNames, in any order.
Listings == UNION {Orderings(S) : S \in SUBSET DiskNames}

InitOrder ==
    /\ \E listing \in Listings,
          fileOrder \in {Undefined}
                        \cup {Arr(o) : o \in SeqsUpTo(OrderNames, MaxOrderLen)} :
          arg = [files |-> listing, fileOrder |-> fileOrder]
    /\ ret = <<>>
    /\ called = "none"
    /\ NoRun

OrderCall ==
    /\ called = "none"
    /\ called' = "orderFiles"
    /\ ret' = orderFiles(arg.files, arg.fileOrder)
    /\ UNCHANGED <<arg, runVars>>

SpecOrder == InitOrder /\ [][OrderCall]_vars

(***************************************************************************)
(* Properties.                                                             *)
(***************************************************************************)
FirstIndex(seq, x) == Min({i \in 1..Len(seq) : seq[i] = x})

\* ---- orderFiles ----
\* UTF-16 code units of the characters of the names.
CodeUnit(c) ==
    CASE c = "." -> 46 [] c = "B" -> 66 [] c = "a" -> 97 [] c = "c" -> 99
      [] c = "e" -> 101 [] c = "h" -> 104 [] c = "l" -> 108 [] c = "m" -> 109
      [] c = "t" -> 116 [] c = "z" -> 122 [] c = "U+00E9" -> 233
      [] c = "U+0301" -> 769 [] OTHER -> 0

\* a sorts strictly before b in lexicographic order of code units.
LexLess(a, b) ==
    CompareKeys([i \in 1..Len(a) |-> CodeUnit(a[i])],
                [i \in 1..Len(b) |-> CodeUnit(b[i])]) = -1

OrderArg == IF arg.fileOrder = Undefined THEN <<>> ELSE arg.fileOrder.v

Listed(name) == name \in Range(OrderArg)

\* ret holds each discovered name once and nothing else, the names fileOrder
\* lists first, in the order of their first mention.
ListedFirst ==
    /\ Len(ret) = Len(arg.files)
    /\ Range(ret) = Range(arg.files)
    /\ \A i, j \in 1..Len(ret) :
          i < j =>
            /\ ret[i] # ret[j]
            /\ Listed(ret[j]) => Listed(ret[i])
            /\ (Listed(ret[i]) /\ Listed(ret[j]))
                  => FirstIndex(OrderArg, ret[i]) < FirstIndex(OrderArg, ret[j])

\* C1 as stated: orderFiles returns every discovered name exactly once and no
\* other, the names fileOrder lists first in fileOrder's order, and the remaining
\* names after them sorted lexicographically ascending.
C1_RemainderLexicographic ==
    called = "orderFiles" =>
      /\ ListedFirst
      /\ \A i, j \in 1..Len(ret) :
            (i < j /\ ~Listed(ret[i]) /\ ~Listed(ret[j])) => LexLess(ret[i], ret[j])

\* C1 as amended: orderFiles returns every discovered name exactly once and no
\* other, the names fileOrder lists first in fileOrder's order (a name not on
\* disk omitted), and the remaining names after them ascending in the order of
\* localeCompare, names that compare as equal in the order of the listing.
C1_RemainderByLocale ==
    called = "orderFiles" =>
      /\ ListedFirst
      /\ \A i, j \in 1..Len(ret) :
            (i < j /\ ~Listed(ret[i]) /\ ~Listed(ret[j])) =>
              /\ localeCompare(ret[i], ret[j]) <= 0
              /\ localeCompare(ret[i], ret[j]) = 0
                    => FirstIndex(arg.files, ret[i]) < FirstIndex(arg.files, ret[j])

C1_Witness ==
    /\ called = "orderFiles"
    /\ arg.files = <<NameB, NameENfd, NameA, NameC, NameENfc>>
    /\ arg.fileOrder = Arr(<<NameZ, NameC>>)
    /\ ret = <<NameC, NameA, NameB, NameENfd, NameENfc>>

\* ---- decodeHtmlEntities ----
EntityTable ==
    << <<EntAmp, "&">>, <<EntLt, "<">>, <<EntGt, ">">>, <<EntQuot, "\"">>,
       <<Ent39, "'">>, <<Ent96, "U+0060">> >>

\* One pass over the text, left to right: a reference becomes its character and
\* the pass goes on after it; any other character is copied.
RECURSIVE SinglePassDecode(_)
SinglePassDecode(text) ==
    IF text = <<>> THEN <<>>
    ELSE LET hits == {k \in 1..Len(EntityTable) : StartsWithAt(text, 1, EntityTable[k][1])}
         IN  IF hits = {} THEN <<Head(text)>> \o SinglePassDecode(Tail(text))
             ELSE LET e == EntityTable[CHOOSE k \in hits : TRUE]
                  IN  <<e[2]>> \o SinglePassDecode(DropFirst(text, Len(e[1])))

\* C10: decodeHtmlEntities returns what a single left-to-right pass replacing the
\* six references returns; what a replacement produced is never decoded again.
C10_SinglePass == called = "decodeHtmlEntities" => ret = SinglePassDecode(arg)

\* ---- extractTextFromHtml ----
\* Length of the inline tag (a match of <[^>]+>) at the head of text, 0 for none.
TagLenAtHead(text) ==
    IF text # <<>> /\ Head(text) = "<" /\ FirstGt(text, 2) >= 3
    THEN FirstGt(text, 2) ELSE 0

\* text with fill in the place of every inline tag.
RECURSIVE TagsReplacedBy(_, _)
TagsReplacedBy(text, fill) ==
    IF text = <<>> THEN <<>>
    ELSE IF TagLenAtHead(text) > 0
         THEN fill \o TagsReplacedBy(DropFirst(text, TagLenAtHead(text)), fill)
         ELSE <<Head(text)>> \o TagsReplacedBy(Tail(text), fill)

\* The maximal runs of characters that are not whitespace.
RECURSIVE Words(_)
Words(text) ==
    LET rest == TrimStart(text)
        stop == {i \in 1..Len(rest) : IsWhitespace(rest[i])}
        n    == IF stop = {} THEN Len(rest) ELSE Min(stop) - 1
    IN  IF rest = <<>> THEN <<>>
        ELSE <<SubSeq(rest, 1, n)>> \o Words(DropFirst(rest, n))

\* The words with one space between each two.
JoinWords(words) ==
    IF words = <<>> THEN <<>>
    ELSE Head(words) \o Flatten([i \in 1..(Len(words) - 1) |-> <<" ">> \o words[i + 1]])

\* C9 as stated: the text handed to the entity decoder is the raw text with every
\* inline tag deleted and nothing in its place, whitespace runs collapsed to one
\* space and the ends trimmed.
C9_TagsDeleted ==
    called = "extractTextFromHtml" =>
      /\ ret.raw = arg.body
      /\ ret.processed = JoinWords(Words(TagsReplacedBy(ret.raw, <<>>)))

\* C9 as amended: the text handed to the entity decoder is the raw text with every
\* inline tag replaced by one space, whitespace runs collapsed to one space and
\* the ends trimmed; the text on the two sides of a tag is separated by a space.
C9_TagsBecomeSpace ==
    called = "extractTextFromHtml" =>
      /\ ret.raw = arg.body
      /\ ret.processed = JoinWords(Words(TagsReplacedBy(ret.raw, <<" ">>)))

C9_Witness ==
    /\ called = "extractTextFromHtml"
    /\ ret.raw = <<"a", "<", "b", ">", "a", "\n">>
    /\ ret.processed = <<"a", " ", "a">>

\* ---- buildFileEntry ----
\* The entry overrides has for the identifier of the entry built.
OverrideFor(id) ==
    IF arg.overrides.t = "object" /\ id \in DOMAIN arg.overrides.v
    THEN arg.overrides.v[id] ELSE EmptyObj

Specifies(override, field) == field \in DOMAIN override.v

\* C3: a file without heading text and without a label override gets its
\* identifier as label, never the empty string.
C3_LabelFallsBackToId ==
    (/\ called = "buildFileEntry"
     /\ extractTextFromHtml(arg.html, H2) = <<>>
     /\ extractTextFromHtml(arg.html, H1) = <<>>
     /\ ~Specifies(OverrideFor(ret.id), "label"))
    => (ret.label = Str(ret.id) /\ ret.label # Str(<<>>))

\* C5: label and description are each the override of the entry keyed by the
\* identifier when that entry specifies the field, and the extracted value
\* otherwise; an entry under another key, or no overrides at all, changes
\* nothing.
C5_OverridePerField ==
    called = "buildFileEntry" =>
      LET override == OverrideFor(ret.id)
      IN  /\ ret.id = SubSeq(arg.fileName, 1, LastDot(arg.fileName) - 1)
          /\ ret.label = IF Specifies(override, "label") THEN override.v["label"]
                         ELSE Str(OrElse(extractTextFromHtml(arg.html, H2),
                                         extractTextFromHtml(arg.html, H1)))
          /\ ret.description =
                IF Specifies(override, "description") THEN override.v["description"]
                ELSE Str(extractTextFromHtml(arg.html, <<"p">>))

C5_Witness ==
    /\ called = "buildFileEntry"
    /\ arg.fileName = NameA
    /\ arg.overrides = Obj(<<"a">> :> Obj("label" :> Str(<<"L">>)))
    /\ ret.label = Str(<<"L">>)
    /\ ret.description = Str(<<"x">>)
    /\ extractTextFromHtml(arg.html, H2) = <<"T">>

\* C8 as stated: the heading is the processed text of the first h2 match whenever
\* the content has an h2 match, also when that text is empty; the first h1 match
\* is used only when there is no h2 match.
C8_H2WheneverMatched ==
    called = "headingText" =>
      ret = IF MatchElement(arg.html, H2).found
            THEN extractTextFromHtml(arg.html, H2)
            ELSE extractTextFromHtml(arg.html, H1)

\* C8 as amended: the heading is the processed text of the first h2 match when the
\* content has an h2 match whose processed text is not empty, regardless of any
\* h1; otherwise (no h2 match, or an h2 match with empty text) it is the
\* processed text of the first h1 match, empty when there is none.
C8_H2UnlessEmpty ==
    called = "headingText" =>
      ret = IF /\ MatchElement(arg.html, H2).found
               /\ extractTextFromHtml(arg.html, H2) # <<>>
            THEN extractTextFromHtml(arg.html, H2)
            ELSE IF MatchElement(arg.html, H1).found
                 THEN extractTextFromHtml(arg.html, H1)
                 ELSE <<>>

C8_Witness ==
    /\ called = "headingText"
    /\ MatchElement(arg.html, H2).found
    /\ extractTextFromHtml(arg.html, H2) = <<>>
    /\ MatchElement(arg.html, H1).found
    /\ ret = <<"A">>

\* ---- a run of the script ----
Terminal == pc \in {"Done", "Failed"}

OpsOf(kind) == {k \in 1..Len(ioLog) : ioLog[k].op = kind}

\* The configured children, as <<collection index, child index>>.
ChildrenOf(cfg) ==
    {<<i, j>> \in (1..Len(cfg.collections)) \X (1..3) :
        j <= Len(cfg.collections[i].children)}

ChildAt(cfg, ij) == cfg.collections[ij[1]].children[ij[2]]

\* The environment makes this operation fail.
FailingOp(o) ==
    \/ o.op = "readConfig" /\ configFile.kind # "ok"
    \/ o.op = "stat" /\ disk[o.dir].kind # "dir"
    \/ o.op = "readdir" /\ ~disk[o.dir].listable
    \/ o.op = "readFile" /\ \E e \in disk[o.dir].entries : e.name = o.name /\ ~e.readable
    \/ o.op = "writeFile" /\ writeFails

\* Some step before the write fails in a run on this environment.
PreWriteFailure ==
    \/ configFile.kind # "ok"
    \/ \E ij \in ChildrenOf(configFile.value) :
          LET d == disk[ChildAt(configFile.value, ij).directory]
          IN  \/ d.kind # "dir"
              \/ ~d.listable
              \/ \E e \in d.entries : IsHtmlFile(e) /\ ~e.readable

\* C2: in a run where a step before the write fails, at whichever collection,
\* child or file, the write is never performed and the output file keeps the
\* content it had when the run began.
C2_NoWriteOnFailure ==
    /\ PreWriteFailure => (OpsOf("writeFile") = {} /\ outFile = prevRun.outFile)
    /\ (pc = "Failed" /\ ioLog[Len(ioLog)].op # "writeFile")
          => (OpsOf("writeFile") = {} /\ outFile = prevRun.outFile)

C2_Witness ==
    /\ pc = "Failed"
    /\ ci = 1 /\ chi = 2 /\ fi = 1
    /\ Len(files) = 0
    /\ ioLog[Len(ioLog)].op = "readFile"
    /\ Len(nextCollection.children) = 1
    /\ outFile = StaleFile

\* C4: in every manifest produced the ids of the entries of one child are
\* pairwise distinct.
C4_DistinctIds ==
    pc = "Done" =>
      \A i \in 1..Len(manifest.collections) :
        \A j \in 1..Len(manifest.collections[i].children) :
          LET entries == manifest.collections[i].children[j].files
          IN  \A a, b \in 1..Len(entries) : a # b => entries[a].id # entries[b].id

\* C6: a run that succeeds after a run that succeeded on the same configuration
\* and directories writes the same output, whatever order the listings came in.
C6_RerunSameOutput ==
    (pc = "Done" /\ prevRun.pc = "Done") => outFile = prevRun.outFile

\* C7, the terminal states: Done has exit code 0 and comes after the check and
\* the listing of every configured child, the read of every HTML file of its
\* directory and one write, none of which failed; Failed has a non-zero exit
\* code and comes from the first operation that failed.
C7_Terminal ==
    /\ pc = "Done" =>
          /\ exitCode = 0
          /\ \A k \in 1..Len(ioLog) : ~FailingOp(ioLog[k])
          /\ ioLog[Len(ioLog)].op = "writeFile"
          /\ Cardinality(OpsOf("writeFile")) = 1
          /\ Cardinality(OpsOf("stat")) = Cardinality(ChildrenOf(config))
          /\ Cardinality(OpsOf("readdir")) = Cardinality(ChildrenOf(config))
          /\ \A ij \in ChildrenOf(config) :
                LET dir == ChildAt(config, ij).directory
                IN  /\ \E k \in OpsOf("stat") : ioLog[k].dir = dir
                    /\ \E k \in OpsOf("readdir") : ioLog[k].dir = dir
                    /\ \A e \in disk[dir].entries :
                          IsHtmlFile(e) =>
                            \E k \in OpsOf("readFile") :
                               ioLog[k].dir = dir /\ ioLog[k].name = e.name
    /\ pc = "Failed" =>
          /\ exitCode # 0
          /\ stderr # "none"
          /\ ioLog # <<>>
          /\ FailingOp(ioLog[Len(ioLog)])
          /\ \A k \in 1..(Len(ioLog) - 1) : ~FailingOp(ioLog[k])

\* C7: every run ends Done or Failed as C7_Terminal describes, and after a
\* failure no further file system operation is performed in that run.
C7_EveryRunEnds ==
    /\ []C7_Terminal
    /\ [][pc = "Failed" => (ioLog' = ioLog \/ pc' = "Start")]_vars
    /\ (pc = "Start") ~> Terminal

C7_Witness ==
    /\ pc = "Failed"
    /\ ioLog[Len(ioLog)].op = "readdir"
    /\ Len(manifest.collections) = 2
    /\ Cardinality(OpsOf("readFile")) > 0

====
